---- MODULE Spec2Model ----
(***************************************************************************)
(* Model of djt_http_client: the HttpClient transport core (URL            *)
(* configuration, stored headers, basic auth, the request life cycle and   *)
(* the race of the send against the timeout timer), its verb helpers, and  *)
(* HttpJsonClient, the JSON layer on top of it.                            *)
(*                                                                         *)
(* JavaScript values that can be of more than one type are tagged records  *)
(* (field t), text that the code cuts or joins is a sequence of one-       *)
(* character strings, and text the code only compares or stores is a TLA+  *)
(* string.                                                                 *)
(***************************************************************************)
EXTENDS Integers, Sequences, FiniteSets, TLC

VARIABLES
    client,             \* the HttpClient instance's fields (json: it is an HttpJsonClient)
    lastOp,             \* the caller's last synchronous call: its arguments, whether it threw
    hasAbortController, \* typeof AbortController != 'undefined' on this platform
    calls               \* the request() calls: each one's promise, timer and send

vars == <<client, lastOp, hasAbortController, calls>>

----------------------------------------------------------------------------
(* JavaScript values *)

Undefined == [t |-> "undefined"]
Null == [t |-> "null"]
NaN == [t |-> "NaN"]
Num(n) == [t |-> "number", n |-> n]
Str(s) == [t |-> "string", s |-> s]
Err(m) == [t |-> "Error", message |-> m]
Blob(d) == [t |-> "Blob", data |-> d]

Bool(b) == [t |-> "boolean", b |-> b]
Obj(entries) == [t |-> "object", entries |-> entries]
Arr(items) == [t |-> "array", items |-> items]

\* JavaScript truthiness of an undefined-or-string value: if (value) ...
Truthy(v) == v.t = "string" /\ v.s # ""

\* String.prototype.toLowerCase on the names the model uses.
ToLowerCase(s) ==
    CASE s = "HTTP" -> "http"
      [] s = "HTTPS" -> "https"
      [] s = "FTP" -> "ftp"
      [] s = "X-A" -> "x-a"
      [] s = "Content-Type" -> "content-type"
      [] s = "Accept" -> "accept"
      [] s = "Authorization" -> "authorization"
      [] OTHER -> s

----------------------------------------------------------------------------
(* Bounds *)

\* callers that use the client concurrently in RaceSpec and LiveSpec
MaxCallers == 2
\* values one stored header holds at most (setHeader appends below it only)
MaxValues == 2
\* entries of a mapping handed to buildRequestParameters in ParamsSpec
MaxEntries == 2

----------------------------------------------------------------------------
(* The URI parser's results: uriParse(url) of uri-js, an external          *)
(* collaborator.  A missing scheme, host or path is "" (the code tests     *)
(* them for truthiness only); userinfo is its text cut at the colons, <<>> *)
(* when the URL has none; port is a number or undefined.                   *)

UrlA ==
    [href |-> "http://u:p@a.example:8080/p", scheme |-> "http", userinfo |-> <<"u", "p">>,
     host |-> "a.example", port |-> Num(8080), path |-> <<"/", "p">>]
UrlB ==
    [href |-> "HTTPS://b.example", scheme |-> "HTTPS", userinfo |-> <<>>,
     host |-> "b.example", port |-> Undefined, path |-> <<>>]
UrlFtp ==
    [href |-> "ftp://a.example/p", scheme |-> "ftp", userinfo |-> <<>>,
     host |-> "a.example", port |-> Undefined, path |-> <<"/", "p">>]
UrlNoHost ==
    [href |-> "http:///p", scheme |-> "http", userinfo |-> <<>>,
     host |-> "", port |-> Undefined, path |-> <<"/", "p">>]
UrlNoScheme ==
    [href |-> "//a.example/p", scheme |-> "", userinfo |-> <<>>,
     host |-> "a.example", port |-> Undefined, path |-> <<"/", "p">>]

Urls == {UrlA, UrlB, UrlFtp, UrlNoHost, UrlNoScheme}

COMPATIBLE_SCHEMES == {"http", "https"}

----------------------------------------------------------------------------
(* Headers: the platform's Headers object, names lower-cased, each name's  *)
(* values in the order they were appended (<<>>: the name is not there).   *)

HeaderNames == {"x-a", "content-type", "accept", "authorization"}

NewHeaders == [n \in HeaderNames |-> <<>>]

HeadersHas(h, name) == h[ToLowerCase(name)] # <<>>
HeadersSet(h, name, value) == [h EXCEPT ![ToLowerCase(name)] = <<value>>]
HeadersAppend(h, name, value) == [h EXCEPT ![ToLowerCase(name)] = Append(@, value)]
HeadersDelete(h, name) == [h EXCEPT ![ToLowerCase(name)] = <<>>]

RECURSIVE AppendAll(_, _, _)
AppendAll(h, name, values) ==
    IF values = <<>> THEN h
    ELSE AppendAll(HeadersAppend(h, name, Head(values)), name, Tail(values))

----------------------------------------------------------------------------
(* configure *)

\* new Request(url, { cache, credentials, headers, mode: 'cors', redirect })
NewRequest(url, cache, credentials, headers, redirect) ==
    [t |-> "Request", url |-> url, cache |-> cache, credentials |-> credentials,
     headers |-> headers, mode |-> "cors", redirect |-> redirect]

\* faulty variant of configureFromUrl: the new Request never takes over the settings
\* of the one the client holds
configureFromUrlFresh(c, url) == NewRequest(url, "default", "include", NewHeaders, "follow")

configureFromUrl(c, url) ==
    IF c._requestInstance # Undefined
    THEN NewRequest(url, c._requestInstance.cache, c._requestInstance.credentials,
                    c._requestInstance.headers, c._requestInstance.redirect)
    ELSE NewRequest(url, "default", "include", NewHeaders, "follow")

\* const scheme = (urlData.scheme ? urlData.scheme.toLowerCase() : '')
ConfigureScheme(urlData) == IF urlData.scheme # "" THEN ToLowerCase(urlData.scheme) ELSE ""

\* faulty variant of ConfigureRejects: the test of the host is missing
ConfigureRejectsNoHostTest(urlData) ==
    \/ ConfigureScheme(urlData) = ""
    \/ ConfigureScheme(urlData) \notin COMPATIBLE_SCHEMES

\* the test that makes configure throw
ConfigureRejects(urlData) ==
    \/ ConfigureScheme(urlData) = ""
    \/ ConfigureScheme(urlData) \notin COMPATIBLE_SCHEMES
    \/ urlData.host = ""

\* userinfo.split(':', 2): at most the first two pieces
Split2(segs) == SubSeq(segs, 1, IF Len(segs) < 2 THEN Len(segs) ELSE 2)

\* typeof urlData.port == 'number' ? urlData.port : parseInt(urlData.port, 10)
ConfigurePort(urlData) == IF urlData.port.t = "number" THEN urlData.port ELSE NaN

\* the URL a Request built from the parsed url points at
UrlOf(urlData) ==
    [scheme |-> ToLowerCase(urlData.scheme), userinfo |-> urlData.userinfo,
     host |-> urlData.host, port |-> urlData.port,
     path |-> IF urlData.path = <<>> THEN <<"/">> ELSE urlData.path, query |-> <<>>]

\* the fields of the client after configure(url) returned
configure(c, urlData) ==
    LET authData == Split2(urlData.userinfo)
        c1 == [c EXCEPT !.scheme = Str(ConfigureScheme(urlData))]
        c2 == IF urlData.userinfo # <<>>
              THEN [c1 EXCEPT !.authUsername = Str(authData[1]),
                              !.authPassword = Str(IF Len(authData) > 1 THEN authData[2] ELSE "")]
              ELSE c1
        c3 == [c2 EXCEPT !.host = Str(urlData.host),
                         !.path = Str(IF urlData.path # <<>> THEN urlData.path ELSE <<"/">>),
                         !.port = ConfigurePort(urlData)]
    IN  [c3 EXCEPT !._requestInstance = configureFromUrl(c, UrlOf(urlData))]

NoClient ==
    [constructed |-> FALSE, scheme |-> Undefined, host |-> Undefined, port |-> Undefined,
     path |-> Undefined, authUsername |-> Undefined, authPassword |-> Undefined,
     _requestInstance |-> Undefined, timeout |-> 0, returnRawResponse |-> FALSE,
     json |-> FALSE]

\* uriParse(url): the parsed components of the URL text
uriParse(url) == CHOOSE u \in Urls : u.href = url

Hrefs == {u.href : u \in Urls}

----------------------------------------------------------------------------
(* Query strings: text as sequences of characters *)

RECURSIVE Flatten(_)
Flatten(seqs) == IF seqs = <<>> THEN <<>> ELSE Head(seqs) \o Flatten(Tail(seqs))

RECURSIVE Join(_, _)
Join(seqs, sep) ==
    IF seqs = <<>> THEN <<>>
    ELSE IF Len(seqs) = 1 THEN Head(seqs)
    ELSE Head(seqs) \o sep \o Join(Tail(seqs), sep)

\* the characters encodeURIComponent leaves alone, among those the model uses
Unreserved == {"a", "b", "k", "q", "v", "0", "1", "2", "-", "_", ".", "~"}

\* encodeURIComponent of one character
PercentEncode(ch) ==
    CASE ch \in Unreserved -> <<ch>>
      [] ch = " " -> <<"%", "2", "0">>
      [] ch = "&" -> <<"%", "2", "6">>
      [] ch = "+" -> <<"%", "2", "B">>
      [] ch = "/" -> <<"%", "2", "F">>
      [] ch = ";" -> <<"%", "3", "B">>
      [] ch = "=" -> <<"%", "3", "D">>
      [] ch = "?" -> <<"%", "3", "F">>
      [] OTHER -> <<"%", "x", "x">>

encodeURIComponent(s) == Flatten([i \in 1..Len(s) |-> PercentEncode(s[i])])

\* whether pat is in s at position i
MatchAt(s, pat, i) ==
    /\ i + Len(pat) - 1 <= Len(s)
    /\ \A j \in 1..Len(pat) : s[i + j - 1] = pat[j]

Includes(s, pat) == \E i \in 1..Len(s) : MatchAt(s, pat, i)

\* String.prototype.replace(pat, rep) with a string pattern: the first match only
ReplaceFirst(s, pat, rep) ==
    IF Includes(s, pat)
    THEN LET i == CHOOSE k \in 1..Len(s) :
                    MatchAt(s, pat, k) /\ \A m \in 1..(k - 1) : ~MatchAt(s, pat, m)
         IN  SubSeq(s, 1, i - 1) \o rep \o SubSeq(s, i + Len(pat), Len(s))
    ELSE s

\* HttpClient.encode
encode(value) == ReplaceFirst(encodeURIComponent(value), <<"%", "2", "0">>, <<"+">>)

\* the character of a decimal digit
Digit(d) ==
    CASE d = 0 -> "0" [] d = 1 -> "1" [] d = 2 -> "2" [] d = 3 -> "3" [] d = 4 -> "4"
      [] d = 5 -> "5" [] d = 6 -> "6" [] d = 7 -> "7" [] d = 8 -> "8" [] OTHER -> "9"

\* the text of a number n >= 0, as encodeURIComponent converts its argument
RECURSIVE NumberToString(_)
NumberToString(n) ==
    IF n < 10 THEN <<Digit(n)>> ELSE NumberToString(n \div 10) \o <<Digit(n % 10)>>

\* one key=value piece of buildRequestParameters
BuildPair(entry) ==
    IF entry.value.t # "boolean"
    THEN encode(entry.key) \o <<"=">>
            \o encode(IF entry.value.t = "number" THEN NumberToString(entry.value.n)
                      ELSE entry.value.s)
    ELSE IF entry.value.b THEN encode(entry.key) \o <<"=", "1">>
    ELSE encode(entry.key) \o <<"=", "0">>

\* whether a property key is an array index: the canonical text of an integer
IsArrayIndex(key) ==
    /\ key # <<>>
    /\ \A i \in 1..Len(key) : \E d \in 0..9 : key[i] = Digit(d)
    /\ Len(key) = 1 \/ key[1] # "0"

\* the number an array index key stands for
RECURSIVE IndexValue(_)
IndexValue(key) ==
    IF key = <<>> THEN 0
    ELSE 10 * IndexValue(SubSeq(key, 1, Len(key) - 1))
            + (CHOOSE d \in 0..9 : key[Len(key)] = Digit(d))

\* entries with array index keys, in ascending order of their indices
RECURSIVE SortByIndex(_)
SortByIndex(entries) ==
    IF entries = <<>> THEN <<>>
    ELSE LET i == CHOOSE k \in 1..Len(entries) :
                    \A j \in 1..Len(entries) :
                        IndexValue(entries[k].key) <= IndexValue(entries[j].key)
         IN  <<entries[i]>>
                \o SortByIndex(SubSeq(entries, 1, i - 1) \o SubSeq(entries, i + 1, Len(entries)))

\* faulty variant of ObjectKeys: the keys in insertion order
ObjectKeysAsInserted(entries) == entries

\* Object.keys(params) of an object whose entries are given in insertion
\* order: the array index keys first, ascending, then the other keys as inserted
ObjectKeys(entries) ==
    SortByIndex(SelectSeq(entries, LAMBDA e : IsArrayIndex(e.key)))
        \o SelectSeq(entries, LAMBDA e : ~IsArrayIndex(e.key))

\* typeof params[key] == 'object' ? params[key].toString() : ...  throws for null
NullToString == Err("TypeError: Cannot read properties of null (reading 'toString')")
Throw(e) == [t |-> "throw", error |-> e]

\* Object.keys(params) throws for undefined and null
KeysOfUndefined == Err("TypeError: Cannot convert undefined or null to object")

\* buildRequestParameters(params, separator): null for a string, the joined
\* pieces for a mapping (its entries in insertion order), or what it throws
buildRequestParameters(params, separator) ==
    IF params.t # "string"
    THEN IF params.t \in {"undefined", "null"} THEN Throw(KeysOfUndefined)
         ELSE IF \E i \in 1..Len(params.entries) : params.entries[i].value.t = "null"
         THEN Throw(NullToString)
         ELSE Str(Join([i \in 1..Len(params.entries) |->
                            BuildPair(ObjectKeys(params.entries)[i])], separator))
    ELSE Null

----------------------------------------------------------------------------
(* The client's synchronous operations *)

Called(op, url, args, threw) == [op |-> op, url |-> url, args |-> args, threw |-> threw]

NoOp == Called("none", "", <<>>, FALSE)

\* new HttpClient(url, timeout, returnRawResponse)
Construct(url, timeoutSeconds, raw) ==
    /\ ~client.constructed
    /\ IF ConfigureRejects(uriParse(url))
       THEN /\ lastOp' = Called("construct", url, <<>>, TRUE)
            /\ UNCHANGED client
       ELSE /\ lastOp' = Called("construct", url, <<>>, FALSE)
            /\ client' = configure([NoClient EXCEPT !.constructed = TRUE,
                                                    !.returnRawResponse = raw,
                                                    !.timeout = timeoutSeconds * 1000],
                                   uriParse(url))
    /\ UNCHANGED <<hasAbortController, calls>>

\* new HttpJsonClient(url, timeout): super(url, timeout, true)
ConstructJson(url, timeoutSeconds) ==
    /\ ~client.constructed
    /\ IF ConfigureRejects(uriParse(url))
       THEN /\ lastOp' = Called("construct", url, <<>>, TRUE)
            /\ UNCHANGED client
       ELSE /\ lastOp' = Called("construct", url, <<>>, FALSE)
            /\ client' = configure([NoClient EXCEPT !.constructed = TRUE,
                                                    !.json = TRUE,
                                                    !.returnRawResponse = TRUE,
                                                    !.timeout = timeoutSeconds * 1000],
                                   uriParse(url))
    /\ UNCHANGED <<hasAbortController, calls>>

\* faulty variant of SetUrl: configure stores the scheme before it tests the URL
SetUrlAssignsBeforeThrow(url) ==
    /\ client.constructed
    /\ IF ConfigureRejects(uriParse(url))
       THEN /\ lastOp' = Called("setUrl", url, <<>>, TRUE)
            /\ client' = [client EXCEPT !.scheme = Str(ToLowerCase(uriParse(url).scheme))]
       ELSE /\ lastOp' = Called("setUrl", url, <<>>, FALSE)
            /\ client' = configure(client, uriParse(url))
    /\ UNCHANGED <<hasAbortController, calls>>

\* client.url = url
SetUrl(url) ==
    /\ client.constructed
    /\ IF ConfigureRejects(uriParse(url))
       THEN /\ lastOp' = Called("setUrl", url, <<>>, TRUE)
            /\ UNCHANGED client
       ELSE /\ lastOp' = Called("setUrl", url, <<>>, FALSE)
            /\ client' = configure(client, uriParse(url))
    /\ UNCHANGED <<hasAbortController, calls>>

\* faulty variant of setHeader: a present header is replaced
setHeaderReplaces(h, name, value, valueAppends) ==
    IF value.t = "undefined"
    THEN IF HeadersHas(h, name) THEN HeadersDelete(h, name) ELSE h
    ELSE AppendAll(IF valueAppends THEN h ELSE HeadersDelete(h, name), name,
                   IF value.t # "array" THEN <<value.s>> ELSE value.items)

\* the stored headers after setHeader(name, value, valueAppends)
setHeader(h, name, value, valueAppends) ==
    IF value.t = "undefined"
    THEN IF HeadersHas(h, name) THEN HeadersDelete(h, name) ELSE h
    ELSE IF (~HeadersHas(h, name)) \/ valueAppends
    THEN AppendAll(h, name, IF value.t # "array" THEN <<value.s>> ELSE value.items)
    ELSE h

SetHeader(name, value, valueAppends) ==
    /\ client.constructed
    /\ \A n \in HeaderNames :
          Len(setHeader(client._requestInstance.headers, name, value, valueAppends)[n]) <= MaxValues
    /\ client' = [client EXCEPT !._requestInstance.headers = setHeader(@, name, value, valueAppends)]
    /\ lastOp' = Called("setHeader", "", <<name, value, valueAppends>>, FALSE)
    /\ UNCHANGED <<hasAbortController, calls>>

\* faulty variant of resetHeaders: new Request(this._requestInstance.url, { headers: new Headers() }),
\* which takes the platform's defaults for everything but the URL
resetHeadersFromUrl(c) ==
    IF c._requestInstance # Undefined
    THEN [c EXCEPT !._requestInstance =
             NewRequest(c._requestInstance.url, "default", "same-origin", NewHeaders, "follow")]
    ELSE c

\* new Request(this._requestInstance, { headers: new Headers() })
resetHeaders(c) ==
    IF c._requestInstance # Undefined
    THEN [c EXCEPT !._requestInstance =
             NewRequest(c._requestInstance.url, c._requestInstance.cache,
                        c._requestInstance.credentials, NewHeaders, c._requestInstance.redirect)]
    ELSE c

\* lastOp.args keeps the headers the call found
ResetHeaders ==
    /\ client.constructed
    /\ client' = resetHeaders(client)
    /\ lastOp' = Called("resetHeaders", "", <<client._requestInstance.headers>>, FALSE)
    /\ UNCHANGED <<hasAbortController, calls>>

setBasicAuth(c, username, password) ==
    [c EXCEPT !.authUsername = IF Truthy(username) THEN username ELSE Str(""),
              !.authPassword = IF Truthy(password) THEN password ELSE Str("")]

SetBasicAuth(username, password) ==
    /\ client.constructed
    /\ client' = setBasicAuth(client, username, password)
    /\ lastOp' = Called("setBasicAuth", "", <<username, password>>, FALSE)
    /\ UNCHANGED <<hasAbortController, calls>>

----------------------------------------------------------------------------
(* The transport: what the server may answer *)

Resp200 ==
    [status |-> 200, statusText |-> "OK", iter |-> "forEach", data |-> "ok",
     headers |-> <<[name |-> "Content-Type", value |-> "text/plain"]>>]
Resp404 ==
    [status |-> 404, statusText |-> "Not Found", iter |-> "entries", data |-> "gone",
     headers |-> <<[name |-> "Content-Type", value |-> "text/html"],
                   [name |-> "X-Req-Id", value |-> "7"]>>]

Responses == {Resp200, Resp404}

\* answers with a JSON content type: a well-formed body, one with a charset
\* parameter, a body cut short, and an error status with a JSON body
RespJson ==
    [status |-> 200, statusText |-> "OK", iter |-> "forEach", data |-> "{\"a\":1}",
     headers |-> <<[name |-> "Content-Type", value |-> "application/json"]>>]
RespJsonCharset ==
    [status |-> 200, statusText |-> "OK", iter |-> "entries", data |-> "{\"a\":1}",
     headers |-> <<[name |-> "Content-Type", value |-> "application/json; charset=utf-8"]>>]
RespBadJson ==
    [status |-> 200, statusText |-> "OK", iter |-> "forEach", data |-> "{\"a\":",
     headers |-> <<[name |-> "Content-Type", value |-> "application/json"]>>]
Resp404Json ==
    [status |-> 404, statusText |-> "Not Found", iter |-> "forEach",
     data |-> "{\"error\":\"gone\"}",
     headers |-> <<[name |-> "Content-Type", value |-> "application/json"]>>]

JsonResponses == {Resp200, Resp404, RespJson, RespJsonCharset, RespBadJson, Resp404Json}

\* Response.ok: the status is in the range 200-299
ResponseOk(r) == r.status >= 200 /\ r.status <= 299

\* String(n) of a number n >= 0
RECURSIVE String(_)
String(n) == IF n < 10 THEN Digit(n) ELSE String(n \div 10) \o Digit(n % 10)

\* name.toLowerCase().replace(/-/g, '_') on the response header names the model uses
NormalizeName(name) ==
    CASE name = "Content-Type" -> "content_type"
      [] name = "X-Req-Id" -> "x_req_id"
      [] OTHER -> name

\* the responseHeaders object _request fills: the last value of each name
ResponseHeaders(r) ==
    IF r.iter \in {"forEach", "entries"}
    THEN [t |-> "object",
          map |-> [n \in {NormalizeName(r.headers[i].name) : i \in 1..Len(r.headers)} |->
                     LET last == CHOOSE i \in 1..Len(r.headers) :
                                   /\ NormalizeName(r.headers[i].name) = n
                                   /\ \A j \in (i + 1)..Len(r.headers) :
                                         NormalizeName(r.headers[j].name) # n
                     IN  r.headers[last].value]]
    ELSE [t |-> "object", map |-> <<>>]

\* the errors a call can end with
TimeoutError == Err("Timeout occurred")
AbortError == Err("AbortError: The user aborted a request.")
NetworkError == Err("TypeError: Failed to fetch")
BodyReadError == Err("TypeError: Failed to read the body")
SyntaxError == Err("SyntaxError: Unexpected end of JSON input")

\* Response.json() on the body texts the model uses: the decoded value, or
\* what it throws for text that is not JSON
JsonParse(text) ==
    CASE text = "{\"a\":1}" -> Obj(<<[key |-> <<"a">>, value |-> Num(1)]>>)
      [] text = "{\"error\":\"gone\"}" ->
            Obj(<<[key |-> <<"e", "r", "r", "o", "r">>, value |-> Str(<<"g", "o", "n", "e">>)]>>)
      [] OTHER -> Throw(SyntaxError)

\* /application\/json(;|$)/i on the content types the model uses
MatchesJson(contentType) ==
    contentType \in {"application/json", "application/json; charset=utf-8"}

\* the body text a response carries: none in the answer to a HEAD request
BodyText(method, r) == IF method = "HEAD" THEN "" ELSE r.data

----------------------------------------------------------------------------
(* request and _request up to the first await *)

\* btoa(text), kept symbolic
btoa(text) == "base64(" \o text \o ")"

\* the payloads request() uses as the body as they are: a Blob, an
\* ArrayBuffer, a ReadableStream, a string
PassedThrough == {"Blob", "ArrayBuffer", "ReadableStream", "string"}

\* faulty variant of RequestArgs: the content type of a form is set whatever the
\* caller stored
RequestArgsFormTypeAlways(c, separator, params, data) ==
    LET headers == c._requestInstance.headers
        h1 == IF data.t = "object"
              THEN HeadersSet(headers, "Content-Type", "application/x-www-form-urlencoded")
              ELSE headers
        body == IF data.t \in PassedThrough THEN data
                ELSE IF data.t = "object" THEN buildRequestParameters(data, <<"&">>)
                ELSE Undefined
        h2 == IF Truthy(c.authUsername)
              THEN HeadersSet(h1, "Authorization",
                              "Basic " \o btoa(c.authUsername.s \o ":" \o c.authPassword.s))
              ELSE h1
    IN  [headers |-> IF body.t = "throw" THEN h1 ELSE h2,
         params |-> IF params.t = "string" THEN params ELSE Undefined,
         separator |-> separator,
         body |-> body]

\* faulty variant of RequestArgs: the Authorization header is computed once
\* and kept (set only when the stored headers have none)
RequestArgsCachedAuth(c, separator, params, data) ==
    LET headers == c._requestInstance.headers
        h1 == IF data.t = "object" /\ ~HeadersHas(headers, "content-type")
              THEN HeadersSet(headers, "Content-Type", "application/x-www-form-urlencoded")
              ELSE headers
        body == IF data.t \in PassedThrough THEN data
                ELSE IF data.t = "object" THEN buildRequestParameters(data, <<"&">>)
                ELSE Undefined
        h2 == IF Truthy(c.authUsername) /\ ~HeadersHas(h1, "authorization")
              THEN HeadersSet(h1, "Authorization",
                              "Basic " \o btoa(c.authUsername.s \o ":" \o c.authPassword.s))
              ELSE h1
    IN  [headers |-> IF body.t = "throw" THEN h1 ELSE h2,
         params |-> IF params.t = "string" THEN params ELSE Undefined,
         separator |-> separator,
         body |-> body]

\* the requestArgs request() hands to _request, with the headers object it
\* shares with this._requestInstance after the writes request() makes to it;
\* body is what buildRequestParameters threw when it threw
RequestArgs(c, separator, params, data) ==
    LET headers == c._requestInstance.headers
        h1 == IF data.t = "object" /\ ~HeadersHas(headers, "content-type")
              THEN HeadersSet(headers, "Content-Type", "application/x-www-form-urlencoded")
              ELSE headers
        body == IF data.t \in PassedThrough THEN data
                ELSE IF data.t = "object" THEN buildRequestParameters(data, <<"&">>)
                ELSE Undefined
        h2 == IF Truthy(c.authUsername)
              THEN HeadersSet(h1, "Authorization",
                              "Basic " \o btoa(c.authUsername.s \o ":" \o c.authPassword.s))
              ELSE h1
    IN  [headers |-> IF body.t = "throw" THEN h1 ELSE h2,
         params |-> IF params.t = "string" THEN params ELSE Undefined,
         separator |-> separator,
         body |-> body]

IndexOf(s, ch) == CHOOSE i \in 1..Len(s) : s[i] = ch /\ \A j \in 1..(i - 1) : s[j] # ch

\* the URL of the Request _request sends: scheme://host/path?params when there
\* are params, the URL of this._requestInstance otherwise
RequestUrl(c, requestArgs) ==
    IF requestArgs.params.t = "string" /\ requestArgs.params.s # <<>>
    THEN LET text == c.path.s
                     \o (IF ~Includes(requestArgs.params.s, <<"?">>) THEN <<"?">> ELSE <<>>)
                     \o requestArgs.params.s
             q == IndexOf(text, "?")
         IN  [scheme |-> c.scheme.s, userinfo |-> <<>>, host |-> c.host.s, port |-> Undefined,
              path |-> SubSeq(text, 1, q - 1), query |-> SubSeq(text, q + 1, Len(text))]
    ELSE c._requestInstance.url

\* what fetch() is called with
Sent(c, method, requestArgs, signal) ==
    [url |-> RequestUrl(c, requestArgs),
     method |-> method,
     headers |-> requestArgs.headers,
     body |-> IF requestArgs.body.t \in PassedThrough \ {"string"}
                 \/ (requestArgs.body.t = "string" /\ requestArgs.body.s # <<>>)
              THEN requestArgs.body ELSE Undefined,
     signal |-> signal]

\* One request() call.  pc: where the async function stands; sent: what fetch()
\* was called with; timer, aborted, fetch, race: the timer, the abort signal,
\* the promise of fetch() and the promise of fetchWithTimeout; response: what
\* fetch() fulfilled with; result: what request() resolved with.  raised (the
\* exception that reached the try block of request) and reads (how often the
\* body of the response was read) only record what happened.
IdleCall ==
    [pc |-> "idle", method |-> "", sent |-> Undefined, timer |-> "none", aborted |-> FALSE,
     fetch |-> "none", race |-> "none", response |-> Undefined, result |-> Undefined,
     raised |-> Undefined, reads |-> 0]

\* the envelope request() resolves with when it caught handledException
Caught(handledException) ==
    [code |-> Undefined, headers |-> Undefined, body |-> handledException,
     rawResponse |-> Undefined]

\* faulty variant of Failed: request() has no catch clause and rejects with e
FailedUncaught(call, e) == [call EXCEPT !.pc = "rejected", !.result = e]

\* the call after the catch clause of request() handled e
Failed(call, e) == [call EXCEPT !.pc = "done", !.result = Caught(e)]

\* e is thrown inside the try block of request()
Raise(call, e) == Failed([call EXCEPT !.raised = e], e)

\* a caller may call request(): it has no call under way, and nothing of its
\* last call is still pending
Quiescent(call) ==
    call.pc \in {"idle", "done", "rejected"} /\ call.timer # "armed" /\ call.fetch # "pending"

\* fetchWithTimeout (or fetch, without a timeout) is entered
Started(call, c, method, requestArgs, abortController) ==
    [call EXCEPT !.pc = "awaitResponse",
                 !.sent = Sent(c, method, requestArgs, c.timeout > 0 /\ abortController),
                 !.timer = IF c.timeout > 0 THEN "armed" ELSE "none",
                 !.race = IF c.timeout > 0 THEN "pending" ELSE "none",
                 !.fetch = "pending"]

\* HttpClient.request(method, separator, params, data) on the client c, until
\* _request awaits the response
Issued(k, c, method, separator, params, data) ==
    LET requestArgs == RequestArgs(c, separator, params, data)
        call == [IdleCall EXCEPT !.method = method]
    IN  /\ client' = [c EXCEPT !._requestInstance.headers = requestArgs.headers]
        /\ calls' = [calls EXCEPT ![k] =
              IF requestArgs.body.t = "throw"
              THEN Raise(call, requestArgs.body.error)
              ELSE Started(call, c, method, requestArgs, hasAbortController)]

\* client.request(method, separator, params, data) on an HttpClient
Request(k, method, separator, params, data) ==
    /\ client.constructed
    /\ ~client.json
    /\ Quiescent(calls[k])
    /\ Issued(k, client, method, separator, params, data)
    /\ lastOp' = Called("request", "", <<data>>, FALSE)
    /\ UNCHANGED hasAbortController

\* the promise of an async verb helper that threw e before it called request()
HelperRejected(call, e) == [call EXCEPT !.pc = "rejected", !.result = e]

\* requestGet, requestHead, requestDelete, requestPatch, requestPost,
\* requestPut, requestOptions, requestTrace of an HttpClient:
\* params = this.buildRequestParameters(params, separator);
\* return this.request(method, separator, params, data)
RequestVerb(k, method, params, separator, data) ==
    /\ client.constructed
    /\ ~client.json
    /\ Quiescent(calls[k])
    /\ LET built == buildRequestParameters(params, separator)
       IN  IF built.t = "throw"
           THEN /\ calls' = [calls EXCEPT ![k] =
                      HelperRejected([IdleCall EXCEPT !.method = method], built.error)]
                /\ UNCHANGED client
           ELSE Issued(k, client, method, separator, built, data)
    /\ lastOp' = Called("verb", "", <<method, params>>, FALSE)
    /\ UNCHANGED hasAbortController

\* JSON.stringify(data) of a mapping of texts, numbers, booleans and nulls, and
\* of a Blob (which has no enumerable properties of its own)
JsonStringifyValue(v) ==
    CASE v.t = "string" -> <<"\"">> \o v.s \o <<"\"">>
      [] v.t = "number" -> <<String(v.n)>>
      [] v.t = "boolean" -> IF v.b THEN <<"t", "r", "u", "e">> ELSE <<"f", "a", "l", "s", "e">>
      [] OTHER -> <<"n", "u", "l", "l">>

JsonStringify(data) ==
    IF data.t = "object"
    THEN <<"{">>
         \o Join([i \in 1..Len(data.entries) |->
                    <<"\"">> \o data.entries[i].key \o <<"\"", ":">>
                    \o JsonStringifyValue(data.entries[i].value)], <<",">>)
         \o <<"}">>
    ELSE <<"{", "}">>

\* data instanceof Object, for a data that is truthy
InstanceOfObject(data) == data.t \in {"object", "array", "Blob", "ArrayBuffer", "ReadableStream"}

\* faulty variant of JsonHeaders: accept and content-type are set whatever the caller stored
JsonHeadersOverwrite(h, characterSet) ==
    HeadersSet(HeadersSet(h, "accept", "application/json"), "content-type",
               IF characterSet # "" THEN "application/json; charset=" \o characterSet
               ELSE "application/json")

\* the stored headers after HttpJsonClient.request defaulted accept and
\* content-type; characterSet is document.characterSet
JsonHeaders(h, characterSet) ==
    LET h1 == IF ~HeadersHas(h, "accept") THEN HeadersSet(h, "accept", "application/json") ELSE h
    IN  IF ~HeadersHas(h1, "content-type")
        THEN HeadersSet(h1, "content-type",
                        IF characterSet # "" THEN "application/json; charset=" \o characterSet
                        ELSE "application/json")
        ELSE h1

\* client.request(method, separator, params, data) on an HttpJsonClient: an
\* object is sent as its JSON text, then HttpClient.request takes over
JsonRequest(k, method, separator, params, data, characterSet) ==
    /\ client.constructed
    /\ client.json
    /\ Quiescent(calls[k])
    /\ IF data.t \notin {"undefined", "null"} /\ data # Str(<<>>) /\ InstanceOfObject(data)
       THEN Issued(k, [client EXCEPT !._requestInstance.headers = JsonHeaders(@, characterSet)],
                   method, separator, params, Str(JsonStringify(data)))
       ELSE Issued(k, client, method, separator, params, data)
    /\ lastOp' = Called("request", "", <<data, characterSet>>, FALSE)
    /\ UNCHANGED hasAbortController

----------------------------------------------------------------------------
(* _request after the response *)

\* the message of the Error _request stores for a non-ok response
StatusMessage(r) == String(r.status) \o r.statusText

\* _return as _request builds it before it reads the body
Envelope(c, r) ==
    [code |-> Num(r.status),
     headers |-> ResponseHeaders(r),
     body |-> IF ~ResponseOk(r) THEN Err(StatusMessage(r)) ELSE Null,
     rawResponse |-> IF c.returnRawResponse THEN r ELSE Undefined]

\* faulty variant of ReadsBody: the test of the method is missing
ReadsBodyOfHead(c, method, r) == ResponseOk(r) /\ ~c.returnRawResponse

\* faulty variant of ReadsBody: the test of the raw-response mode is missing
ReadsBodyInRawMode(c, method, r) == ResponseOk(r) /\ method # "HEAD"

\* whether _request goes on to await response.blob()
ReadsBody(c, method, r) == ResponseOk(r) /\ method # "HEAD" /\ ~c.returnRawResponse

\* whether HttpJsonClient._request goes on to await rawResponse.json():
\* _return.rawResponse instanceof Response
DecodesJson(c, r) == c.json /\ c.returnRawResponse

\* the call after _request got the response r
Responded(c, call, r) ==
    [call EXCEPT !.pc = IF ReadsBody(c, call.method, r) THEN "awaitBlob"
                        ELSE IF DecodesJson(c, r) THEN "awaitJson" ELSE "done",
                 !.reads = IF ReadsBody(c, call.method, r) \/ DecodesJson(c, r) THEN @ + 1 ELSE @,
                 !.result = Envelope(c, r)]

\* faulty variant of Awaited: a promise that is settled can be settled again
AwaitedAgain(call) == call.pc \in {"awaitResponse", "done"}

\* whether a settlement of the send still reaches _request: the promise of
\* fetchWithTimeout is pending, or fetch is awaited directly
Awaited(call) == call.pc = "awaitResponse" /\ call.race \in {"pending", "none"}

\* faulty variant of ClearTimeout: the then-callback does not clear the timer
ClearTimeoutForgotten(timer) == timer

\* clearTimeout(timeoutId)
ClearTimeout(timer) == IF timer = "armed" THEN "cleared" ELSE timer

\* fetch() fulfilled with r: the then-callback of fetchWithTimeout (without a
\* timeout: the await of _request) and what _request does next
FetchFulfilled(c, call, r) ==
    LET c1 == [call EXCEPT !.fetch = "fulfilled", !.response = r, !.timer = ClearTimeout(@)]
    IN  IF Awaited(c1)
        THEN Responded(c, [c1 EXCEPT !.race = IF @ = "pending" THEN "resolved" ELSE @], r)
        ELSE c1

FetchRespond(k, r) ==
    /\ calls[k].fetch = "pending"
    /\ ~calls[k].aborted
    /\ calls' = [calls EXCEPT ![k] = FetchFulfilled(client, @, r)]
    /\ UNCHANGED <<client, lastOp, hasAbortController>>

\* fetch() rejected with e: .catch(reject)
FetchRejected(call, e) ==
    LET c1 == [call EXCEPT !.fetch = "rejected"]
    IN  IF Awaited(c1)
        THEN Raise([c1 EXCEPT !.race = IF @ = "pending" THEN "rejected" ELSE @], e)
        ELSE c1

\* the send fails on its own
FetchFail(k) ==
    /\ calls[k].fetch = "pending"
    /\ ~calls[k].aborted
    /\ calls' = [calls EXCEPT ![k] = FetchRejected(@, NetworkError)]
    /\ UNCHANGED <<client, lastOp, hasAbortController>>

\* the transport honours the abort signal: the send fails with the abort error
FetchAbort(k) ==
    /\ calls[k].fetch = "pending"
    /\ calls[k].aborted
    /\ calls' = [calls EXCEPT ![k] = FetchRejected(@, AbortError)]
    /\ UNCHANGED <<client, lastOp, hasAbortController>>

\* faulty variant of TimerCallback: the callback neither aborts nor rejects
TimerCallbackSilent(call, abortable) == [call EXCEPT !.timer = "fired"]

\* faulty variant of TimerCallback: the callback rejects also when it aborts
TimerCallbackRejects(call, abortable) ==
    LET c1 == [call EXCEPT !.timer = "fired", !.aborted = abortable]
    IN  IF call.pc = "awaitResponse" /\ call.race \in {"pending", "none"}
        THEN [c1 EXCEPT !.race = "rejected", !.raised = Err("Timeout occurred"), !.pc = "done",
                        !.result = [code |-> Undefined, headers |-> Undefined,
                                    body |-> Err("Timeout occurred"), rawResponse |-> Undefined]]
        ELSE c1

\* the timer callback of fetchWithTimeout: abortController.abort() when the
\* call got an AbortController, reject(new Error('Timeout occurred')) otherwise
TimerCallback(call, abortable) ==
    LET c1 == [call EXCEPT !.timer = "fired"]
    IN  IF abortable
        THEN [c1 EXCEPT !.aborted = TRUE]
        ELSE IF Awaited(c1) THEN Raise([c1 EXCEPT !.race = "rejected"], TimeoutError)
        ELSE c1

\* faulty variant of TimerFire: one timer and one signal for all the calls
TimerFireShared(k) ==
    /\ calls[k].timer = "armed"
    /\ calls' = [j \in DOMAIN calls |->
                    IF calls[j].timer = "armed"
                    THEN TimerCallback(calls[j], calls[j].sent.signal)
                    ELSE calls[j]]
    /\ UNCHANGED <<client, lastOp, hasAbortController>>

\* the timer of call k expires
TimerFire(k) ==
    /\ calls[k].timer = "armed"
    /\ calls' = [calls EXCEPT ![k] = TimerCallback(@, calls[k].sent.signal)]
    /\ UNCHANGED <<client, lastOp, hasAbortController>>

\* response.blob() fulfils: _request returns _return, which
\* HttpJsonClient._request tests for a rawResponse
BlobDone(k) ==
    /\ calls[k].pc = "awaitBlob"
    /\ calls' = [calls EXCEPT
          ![k].pc = IF DecodesJson(client, calls[k].response) THEN "awaitJson" ELSE "done",
          ![k].reads = IF DecodesJson(client, calls[k].response) THEN @ + 1 ELSE @,
          ![k].result.body = Blob(calls[k].response.data)]
    /\ UNCHANGED <<client, lastOp, hasAbortController>>

\* response.blob() rejects
BlobFail(k) ==
    /\ calls[k].pc = "awaitBlob"
    /\ calls' = [calls EXCEPT ![k] = Raise(@, BodyReadError)]
    /\ UNCHANGED <<client, lastOp, hasAbortController>>

\* faulty variant of JsonDecoded: the raw response stays in the envelope
JsonDecodedKeepsRaw(call, value) == [call EXCEPT !.pc = "done", !.result.body = value]

\* the call after rawResponse.json() gave value: _return.body = value,
\* delete(_return.rawResponse)
JsonDecoded(call, value) ==
    [call EXCEPT !.pc = "done", !.result.body = value, !.result.rawResponse = Undefined]

\* rawResponse.json() fulfils: the body text is JSON
JsonDone(k) ==
    /\ calls[k].pc = "awaitJson"
    /\ JsonParse(BodyText(calls[k].method, calls[k].response)).t # "throw"
    /\ calls' = [calls EXCEPT ![k] =
          JsonDecoded(@, JsonParse(BodyText(calls[k].method, calls[k].response)))]
    /\ UNCHANGED <<client, lastOp, hasAbortController>>

\* faulty variant of JsonRejected: the rejection of json() leaves request() uncaught
JsonRejectedUncaught(call, e) == [call EXCEPT !.pc = "rejected", !.result = e, !.raised = e]

\* rawResponse.json() rejected with e inside HttpJsonClient._request, which
\* request() awaits inside its try block
JsonRejected(call, e) == Raise(call, e)

\* rawResponse.json() rejects: the body text is not JSON, or reading it failed
JsonFail(k) ==
    /\ calls[k].pc = "awaitJson"
    /\ calls' = [calls EXCEPT ![k] =
          JsonRejected(@, IF JsonParse(BodyText(calls[k].method, calls[k].response)).t = "throw"
                          THEN SyntaxError ELSE BodyReadError)]
    /\ UNCHANGED <<client, lastOp, hasAbortController>>

----------------------------------------------------------------------------
(* Inputs *)

Timeouts == {0, 30}
Methods == {"GET", "HEAD"}
Separators == {<<";">>}
ParamsInputs == {Undefined, Str(<<"q", "=", "1">>)}
FormData == Obj(<<[key |-> <<"k">>, value |-> Str(<<"a", " ", "b">>)]>>)
NullData == Obj(<<[key |-> <<"k">>, value |-> Null]>>)
SetHeaderInputs ==
    {<<"X-A", Str("v1"), FALSE>>, <<"x-a", Str("v2"), FALSE>>, <<"X-A", Str("v2"), TRUE>>,
     <<"x-a", Arr(<<"v1", "v2">>), FALSE>>, <<"X-A", Undefined, FALSE>>,
     <<"Content-Type", Str("text/plain"), FALSE>>}
\* mappings of up to MaxEntries entries with distinct keys, and the separators
ParamKeys == {<<"a">>, <<"1">>, <<"2">>, <<"k", " ", "q">>}
ParamValues ==
    {Str(<<"v">>), Str(<<"a", " ", "b", " ", "q">>), Str(<<"=", ";">>), Num(12),
     Bool(TRUE), Bool(FALSE)}
ParamSeparators == {<<";">>, <<"&">>}
Mappings ==
    {Obj(es) : es \in {e \in UNION {[1..n -> [key : ParamKeys, value : ParamValues]] :
                                        n \in 0..MaxEntries} :
                          \A i \in DOMAIN e, j \in DOMAIN e : i # j => e[i].key # e[j].key}}
AuthInputs == {<<Undefined, Undefined>>, <<Str("w"), Str("s")>>}
Verbs == {"DELETE", "GET", "HEAD", "PATCH", "POST", "PUT", "OPTIONS", "TRACE"}
QueryParams == Obj(<<[key |-> <<"q">>, value |-> Str(<<"1">>)], [key |-> <<"v">>, value |-> Bool(TRUE)]>>)
JsonData == Obj(<<[key |-> <<"k">>, value |-> Str(<<"a", " ", "b">>)],
                  [key |-> <<"n">>, value |-> Null]>>)
TextData == Str(<<"a", "=", "b">>)
BlobData == Blob("bytes")
BufferData == [t |-> "ArrayBuffer", data |-> "bytes"]
StreamData == [t |-> "ReadableStream", data |-> "bytes"]
CharacterSets == {"", "UTF-8"}
JsonRequestInputs ==
    {<<"GET", Undefined>>, <<"HEAD", Undefined>>, <<"POST", JsonData>>, <<"POST", TextData>>,
     <<"POST", BlobData>>, <<"POST", StreamData>>}

----------------------------------------------------------------------------
(* Specifications *)

\* ConfigSpec: the synchronous configuration API of one client
ConfigInit ==
    /\ client = NoClient
    /\ lastOp = NoOp
    /\ hasAbortController \in BOOLEAN
    /\ calls = <<>>

ConfigNext ==
    \/ \E url \in Hrefs, s \in Timeouts, raw \in BOOLEAN : Construct(url, s, raw)
    \/ \E url \in Hrefs : SetUrl(url)
    \/ \E in \in SetHeaderInputs : SetHeader(in[1], in[2], in[3])
    \/ ResetHeaders
    \/ \E in \in AuthInputs : SetBasicAuth(in[1], in[2])

ConfigSpec == ConfigInit /\ [][ConfigNext]_vars

\* Spec: one caller that uses every operation of the client, one request at a time
Init ==
    /\ client = NoClient
    /\ lastOp = NoOp
    /\ hasAbortController \in BOOLEAN
    /\ calls = <<IdleCall>>

Next ==
    \/ \E url \in Hrefs : Construct(url, 30, FALSE)
    \/ \E url \in {UrlA.href, UrlB.href, UrlFtp.href, UrlNoHost.href} : SetUrl(url)
    \/ SetHeader("Content-Type", Str("text/plain"), FALSE)
    \/ ResetHeaders
    \/ \E in \in AuthInputs : SetBasicAuth(in[1], in[2])
    \/ \E k \in DOMAIN calls, sep \in Separators, p \in ParamsInputs, d \in {Undefined, FormData} :
          Request(k, "GET", sep, p, d)
    \/ \E k \in DOMAIN calls, r \in Responses : FetchRespond(k, r)
    \/ \E k \in DOMAIN calls : FetchFail(k)
    \/ \E k \in DOMAIN calls : FetchAbort(k)
    \/ \E k \in DOMAIN calls : TimerFire(k)
    \/ \E k \in DOMAIN calls : BlobDone(k)
    \/ \E k \in DOMAIN calls : BlobFail(k)

Spec == Init /\ [][Next]_vars

\* RaceSpec: callers that share one client, each request racing its own timer
RaceInit ==
    /\ client = NoClient
    /\ lastOp = NoOp
    /\ hasAbortController \in BOOLEAN
    /\ calls = [k \in 1..MaxCallers |-> IdleCall]

RaceNext ==
    \/ \E url \in {UrlB.href, UrlFtp.href}, s \in Timeouts, raw \in BOOLEAN : Construct(url, s, raw)
    \/ \E k \in DOMAIN calls, m \in Methods, sep \in Separators, d \in {Undefined, NullData} :
          Request(k, m, sep, Undefined, d)
    \/ \E k \in DOMAIN calls, r \in Responses : FetchRespond(k, r)
    \/ \E k \in DOMAIN calls : FetchFail(k)
    \/ \E k \in DOMAIN calls : FetchAbort(k)
    \/ \E k \in DOMAIN calls : TimerFire(k)
    \/ \E k \in DOMAIN calls : BlobDone(k)
    \/ \E k \in DOMAIN calls : BlobFail(k)

RaceSpec == RaceInit /\ [][RaceNext]_vars

\* LiveSpec: RaceSpec with a server that never answers, timers that fire and a
\* transport that honours the abort signal
LiveNext ==
    \/ \E url \in {UrlB.href, UrlFtp.href}, s \in Timeouts, raw \in BOOLEAN : Construct(url, s, raw)
    \/ \E k \in DOMAIN calls, m \in Methods, sep \in Separators :
          Request(k, m, sep, Undefined, Undefined)
    \/ \E k \in DOMAIN calls : FetchAbort(k)
    \/ \E k \in DOMAIN calls : TimerFire(k)

LiveSpec ==
    /\ RaceInit
    /\ [][LiveNext]_vars
    /\ \A k \in 1..MaxCallers : WF_vars(TimerFire(k)) /\ WF_vars(FetchAbort(k))

\* StallSpec: callers of one client with a timeout, a server that answers, timers
\* that fire and a transport that honours the abort signal; the read of a
\* body may complete, fail, or never end
StallNext ==
    \/ \E url \in {UrlB.href, UrlFtp.href}, raw \in BOOLEAN : Construct(url, 30, raw)
    \/ \E k \in DOMAIN calls, m \in Methods, sep \in Separators :
          Request(k, m, sep, Undefined, Undefined)
    \/ \E k \in DOMAIN calls, r \in Responses : FetchRespond(k, r)
    \/ \E k \in DOMAIN calls : FetchAbort(k)
    \/ \E k \in DOMAIN calls : TimerFire(k)
    \/ \E k \in DOMAIN calls : BlobDone(k)
    \/ \E k \in DOMAIN calls : BlobFail(k)

StallSpec ==
    /\ RaceInit
    /\ [][StallNext]_vars
    /\ \A k \in 1..MaxCallers :
          /\ WF_vars(TimerFire(k))
          /\ WF_vars(FetchAbort(k))
          /\ WF_vars(\E r \in Responses : FetchRespond(k, r))

\* JsonSpec: one caller of an HttpJsonClient, without a timeout
JsonInit ==
    /\ client = NoClient
    /\ lastOp = NoOp
    /\ hasAbortController \in BOOLEAN
    /\ calls = <<IdleCall>>

JsonNext ==
    \/ \E url \in {UrlB.href, UrlFtp.href} : ConstructJson(url, 0)
    \/ \E in \in {<<"Accept", Str("text/html"), FALSE>>,
                  <<"Content-Type", Str("text/plain"), FALSE>>} : SetHeader(in[1], in[2], in[3])
    \/ ResetHeaders
    \/ \E k \in DOMAIN calls, in \in JsonRequestInputs, sep \in Separators, cs \in CharacterSets :
          JsonRequest(k, in[1], sep, Undefined, in[2], cs)
    \/ \E k \in DOMAIN calls, r \in JsonResponses : FetchRespond(k, r)
    \/ \E k \in DOMAIN calls : FetchFail(k)
    \/ \E k \in DOMAIN calls : JsonDone(k)
    \/ \E k \in DOMAIN calls : JsonFail(k)

JsonSpec == JsonInit /\ [][JsonNext]_vars

\* VerbSpec: one caller that uses the verb helpers of an HttpClient, without a timeout
VerbInit ==
    /\ client = NoClient
    /\ lastOp = NoOp
    /\ hasAbortController \in BOOLEAN
    /\ calls = <<IdleCall>>

VerbNext ==
    \/ \E url \in {UrlA.href, UrlB.href, UrlFtp.href} : Construct(url, 0, FALSE)
    \/ \E k \in DOMAIN calls, m \in Verbs, sep \in Separators,
          p \in {Undefined, QueryParams, Str(<<"q", "=", "1">>)} :
          RequestVerb(k, m, p, sep, Undefined)
    \/ \E k \in DOMAIN calls, r \in Responses : FetchRespond(k, r)
    \/ \E k \in DOMAIN calls : FetchFail(k)
    \/ \E k \in DOMAIN calls : BlobDone(k)
    \/ \E k \in DOMAIN calls : BlobFail(k)

VerbSpec == VerbInit /\ [][VerbNext]_vars

\* PayloadSpec: one caller that posts every kind of payload, without a timeout
PayloadInit ==
    /\ client = NoClient
    /\ lastOp = NoOp
    /\ hasAbortController \in BOOLEAN
    /\ calls = <<IdleCall>>

PayloadNext ==
    \/ \E url \in {UrlA.href, UrlB.href, UrlFtp.href} : Construct(url, 0, FALSE)
    \/ SetHeader("Content-Type", Str("text/plain"), FALSE)
    \/ ResetHeaders
    \/ \E k \in DOMAIN calls, sep \in Separators,
          d \in {Undefined, FormData, NullData, TextData, BlobData, BufferData, StreamData} :
          Request(k, "POST", sep, Undefined, d)
    \/ \E k \in DOMAIN calls, r \in Responses : FetchRespond(k, r)
    \/ \E k \in DOMAIN calls : FetchFail(k)
    \/ \E k \in DOMAIN calls : BlobDone(k)
    \/ \E k \in DOMAIN calls : BlobFail(k)

PayloadSpec == PayloadInit /\ [][PayloadNext]_vars

\* AuthSpec: callers that share one client while its URL and its credentials
\* change between their requests; no timeout, every send is answered
AuthInit ==
    /\ client = NoClient
    /\ lastOp = NoOp
    /\ hasAbortController \in BOOLEAN
    /\ calls = [k \in 1..MaxCallers |-> IdleCall]

AuthNext ==
    \/ \E url \in {UrlA.href, UrlB.href} : Construct(url, 0, FALSE)
    \/ \E url \in {UrlA.href, UrlB.href} : SetUrl(url)
    \/ \E in \in AuthInputs : SetBasicAuth(in[1], in[2])
    \/ \E k \in DOMAIN calls, sep \in Separators : Request(k, "GET", sep, Undefined, Undefined)
    \/ \E k \in DOMAIN calls : FetchRespond(k, Resp200)
    \/ \E k \in DOMAIN calls : BlobDone(k)

AuthSpec == AuthInit /\ [][AuthNext]_vars

\* ParamsSpec: buildRequestParameters applied to the arguments Init draws
ParamsInit ==
    /\ client = NoClient
    /\ \E params \in Mappings \cup ParamsInputs, separator \in ParamSeparators :
          lastOp = Called("none", "", <<params, separator>>, FALSE)
    /\ hasAbortController = FALSE
    /\ calls = <<>>

BuildRequestParameters ==
    /\ lastOp.op = "none"
    /\ LET _return == buildRequestParameters(lastOp.args[1], lastOp.args[2])
       IN  lastOp' = Called("buildRequestParameters", "",
                            <<lastOp.args[1], lastOp.args[2],
                              IF _return.t = "throw" THEN _return.error ELSE _return>>,
                            _return.t = "throw")
    /\ UNCHANGED <<client, hasAbortController, calls>>

ParamsNext == BuildRequestParameters

ParamsSpec == ParamsInit /\ [][ParamsNext]_vars

\* ReadSpec: callers of one client that is an HttpClient, in raw-response mode
\* or not, or an HttpJsonClient, without a timeout
ReadInit ==
    /\ client = NoClient
    /\ lastOp = NoOp
    /\ hasAbortController \in BOOLEAN
    /\ calls = [k \in 1..MaxCallers |-> IdleCall]

ReadNext ==
    \/ \E raw \in BOOLEAN : Construct(UrlB.href, 0, raw)
    \/ ConstructJson(UrlB.href, 0)
    \/ \E k \in DOMAIN calls, m \in Methods, sep \in Separators :
          Request(k, m, sep, Undefined, Undefined)
    \/ \E k \in DOMAIN calls, m \in Methods, sep \in Separators, cs \in CharacterSets :
          JsonRequest(k, m, sep, Undefined, Undefined, cs)
    \/ \E k \in DOMAIN calls, r \in JsonResponses : FetchRespond(k, r)
    \/ \E k \in DOMAIN calls : FetchFail(k)
    \/ \E k \in DOMAIN calls : BlobDone(k)
    \/ \E k \in DOMAIN calls : BlobFail(k)
    \/ \E k \in DOMAIN calls : JsonDone(k)
    \/ \E k \in DOMAIN calls : JsonFail(k)

ReadSpec == ReadInit /\ [][ReadNext]_vars

----------------------------------------------------------------------------
(* Claims *)

\* C1: request() never rejects: whatever is thrown while the request is
\* prepared, sent or its response read (a throw of the form encoding, a
\* network failure, an abort, a timeout, a failed body read) ends the call
\* resolved, with an envelope whose code and headers are undefined and whose
\* body is the error that was thrown.
C1_RequestNeverRejects ==
    \A k \in DOMAIN calls :
        /\ calls[k].pc \in {"idle", "awaitResponse", "awaitBlob", "done"}
        /\ calls[k].raised # Undefined =>
              /\ calls[k].pc = "done"
              /\ calls[k].result.code = Undefined
              /\ calls[k].result.headers = Undefined
              /\ calls[k].result.body = calls[k].raised

\* two calls that ended in the catch clause: one that threw before anything
\* was sent, one whose body read failed
C1_Witness ==
    \E j, k \in DOMAIN calls :
        /\ calls[j].raised = NullToString /\ calls[j].pc = "done"
        /\ calls[k].raised = BodyReadError /\ calls[k].pc = "done"

\* C2: with a timeout > 0 and a server that never answers, a request that
\* waits for its response is eventually resolved with an envelope whose code
\* is undefined and whose body is an error, with and without AbortController.
C2_TimeoutResolves ==
    \A k \in 1..MaxCallers :
        [](calls[k].pc = "awaitResponse" /\ client.timeout > 0
             => <>(/\ calls[k].pc = "done"
                   /\ calls[k].result.code = Undefined
                   /\ calls[k].result.body.t = "Error"))

\* a call that the abort of its own timer ended
C2_Witness ==
    \E k \in DOMAIN calls :
        /\ hasAbortController
        /\ client.timeout > 0
        /\ calls[k].timer = "fired"
        /\ calls[k].pc = "done"
        /\ calls[k].result = Caught(AbortError)

\* C3: without AbortController, a timer that fires while the call waits for
\* the response rejects the race with the timeout error and the call resolves
\* with code undefined; when the send completes after that, nothing of what
\* the call reported changes.
C3_TimeoutThenLateResponse ==
    [][\A k \in DOMAIN calls :
          /\ (/\ calls[k].timer = "armed" /\ calls'[k].timer = "fired"
              /\ ~calls[k].sent.signal
              /\ calls[k].pc = "awaitResponse")
             => /\ calls'[k].race = "rejected"
                /\ calls'[k].pc = "done"
                /\ calls'[k].result = Caught(TimeoutError)
          /\ (/\ calls[k].pc = "done" /\ calls[k].raised = TimeoutError
              /\ calls[k].fetch = "pending" /\ calls'[k].fetch # "pending")
             => /\ calls'[k].pc = "done"
                /\ calls'[k].race = "rejected"
                /\ calls'[k].result = calls[k].result]_vars

\* the timeout was reported and the response arrived afterwards
C3_Witness ==
    \E k \in DOMAIN calls :
        /\ ~hasAbortController
        /\ calls[k].result = Caught(TimeoutError)
        /\ calls[k].fetch = "fulfilled"
        /\ calls[k].response = Resp200

\* C4: with AbortController, the timer callback only sets the abort signal of
\* its own call and leaves the race and the call as they are; the call ends
\* when the send fails with the abort error, resolved with code undefined and
\* that abort error as body.
C4_AbortEndsTheCall ==
    [][\A k \in DOMAIN calls :
          /\ (/\ calls[k].timer = "armed" /\ calls'[k].timer = "fired"
              /\ calls[k].sent.signal)
             => /\ calls'[k].aborted
                /\ calls'[k].race = calls[k].race
                /\ calls'[k].pc = calls[k].pc
                /\ calls'[k].result = calls[k].result
                /\ \A j \in DOMAIN calls \ {k} : calls'[j] = calls[j]
          /\ (/\ calls[k].aborted /\ calls[k].pc = "awaitResponse"
              /\ calls[k].fetch = "pending" /\ calls'[k].fetch # "pending")
             => /\ calls'[k].fetch = "rejected"
                /\ calls'[k].pc = "done"
                /\ calls'[k].result = Caught(AbortError)]_vars

\* a call whose timer fired, with the abort signalled and the call still waiting
C4_Witness ==
    \E k \in DOMAIN calls :
        /\ calls[k].sent # Undefined
        /\ calls[k].sent.signal
        /\ calls[k].timer = "fired"
        /\ calls[k].aborted
        /\ calls[k].pc = "awaitResponse"
        /\ calls[k].race = "pending"

\* C5: a completed response with a non-ok status resolves the call with the
\* status as code, the normalized headers, and an Error whose message is the
\* status code, a space and the status text ("404 Not Found").
C5_StatusErrorRendered ==
    \A k \in DOMAIN calls :
        (/\ calls[k].pc = "done"
         /\ calls[k].raised = Undefined
         /\ calls[k].response # Undefined
         /\ ~ResponseOk(calls[k].response))
        => /\ calls[k].result.code = Num(calls[k].response.status)
           /\ calls[k].result.headers = ResponseHeaders(calls[k].response)
           /\ calls[k].result.body =
                 Err(String(calls[k].response.status) \o " " \o calls[k].response.statusText)

\* C6: for an ok response without raw-response mode, a call of a method other
\* than HEAD ends with the status as code and the bytes of the response as
\* body; a HEAD call ends with body null and never reads the body.
C6_BodyOfOkResponse ==
    \A k \in DOMAIN calls :
        (/\ calls[k].response # Undefined
         /\ calls[k].raised = Undefined
         /\ ResponseOk(calls[k].response))
        => /\ calls[k].method = "HEAD" =>
                 /\ calls[k].pc = "done"
                 /\ calls[k].reads = 0
                 /\ calls[k].result.code = Num(calls[k].response.status)
                 /\ calls[k].result.body = Null
           /\ (calls[k].method # "HEAD" /\ ~client.returnRawResponse /\ calls[k].pc = "done") =>
                 /\ calls[k].reads = 1
                 /\ calls[k].result.code = Num(calls[k].response.status)
                 /\ calls[k].result.body = Blob(calls[k].response.data)

\* a GET that ended with the bytes and a HEAD that ended without a body
C6_Witness ==
    \E j, k \in DOMAIN calls :
        /\ ~client.returnRawResponse
        /\ calls[j].method = "GET" /\ calls[j].pc = "done"
        /\ calls[j].result.code = Num(200) /\ calls[j].result.body = Blob("ok")
        /\ calls[k].method = "HEAD" /\ calls[k].pc = "done"
        /\ calls[k].result.code = Num(200) /\ calls[k].result.body = Null

\* C7: new HttpClient(url) and client.url = url throw exactly when the scheme
\* of the URL, lower-cased, is not http or https or the host is missing;
\* otherwise scheme (up to case), host, port and path are those the parser
\* gave, the path '/' when it gave none.
C7_ConfigureMatchesParsed ==
    lastOp.op \in {"construct", "setUrl"} =>
        LET urlData == uriParse(lastOp.url)
            incompatible == \/ ToLowerCase(urlData.scheme) \notin {"http", "https"}
                            \/ urlData.host = ""
        IN  /\ lastOp.threw = incompatible
            /\ ~incompatible =>
                  /\ client.scheme = Str(ToLowerCase(urlData.scheme))
                  /\ client.host = Str(urlData.host)
                  /\ client.port = urlData.port
                  /\ client.path = Str(IF urlData.path = <<>> THEN <<"/">> ELSE urlData.path)

\* C8: once a client is constructed its scheme is http or https and its host
\* is not empty, whatever is called on it.
C8_SchemeAndHostValid ==
    client.constructed =>
        /\ client.scheme \in {Str("http"), Str("https")}
        /\ client.host.t = "string"
        /\ client.host.s # ""

\* a url set has just failed on a client that has made a request
C8_Witness ==
    /\ client.constructed
    /\ lastOp.op = "setUrl" /\ lastOp.threw
    /\ \E k \in DOMAIN calls : calls[k].pc = "done"
    /\ client.authUsername = Str("w")

\* C9: setHeader(name, value, append) acts on the lower-cased name only:
\* value undefined removes the header; an absent header, or append, adds the
\* given value(s) after those that are there; a present header without append
\* stays as it is.
C9_SetHeaderSetIfAbsentOrAppend ==
    [][lastOp'.op = "setHeader" =>
          LET name == lastOp'.args[1]
              value == lastOp'.args[2]
              append == lastOp'.args[3]
              n == IF name \in {"X-A", "x-a"} THEN "x-a" ELSE "content-type"
              given == IF value.t = "array" THEN value.items ELSE <<value.s>>
              h == client._requestInstance.headers
              h2 == client'._requestInstance.headers
          IN  /\ \A m \in HeaderNames \ {n} : h2[m] = h[m]
              /\ value = Undefined => h2[n] = <<>>
              /\ (value # Undefined /\ (h[n] = <<>> \/ append)) => h2[n] = h[n] \o given
              /\ (value # Undefined /\ h[n] # <<>> /\ ~append) => h2[n] = h[n]
              /\ client' = [client EXCEPT !._requestInstance.headers = h2]]_vars

\* setHeader('X','v2',true) has just added v2 to a header that held v1
C9_Witness ==
    /\ lastOp = Called("setHeader", "", <<"X-A", Str("v2"), TRUE>>, FALSE)
    /\ client._requestInstance.headers["x-a"] = <<"v1", "v2">>

\* C10: resetHeaders leaves the stored headers empty and everything else of
\* the client as it was: the URL, cache, credentials and redirect of the
\* request, scheme, host, port, path, credentials, timeout, raw-response mode.
C10_ResetHeadersFrame ==
    [][lastOp'.op = "resetHeaders" =>
          /\ \A n \in HeaderNames : client'._requestInstance.headers[n] = <<>>
          /\ client' = [client EXCEPT !._requestInstance.headers = NewHeaders]
          /\ calls' = calls]_vars

\* resetHeaders has just emptied headers that held two names, on a client
\* with credentials
C10_Witness ==
    /\ lastOp.op = "resetHeaders"
    /\ lastOp.args[1]["x-a"] = <<"v1", "v2">>
    /\ lastOp.args[1]["content-type"] # <<>>
    /\ client._requestInstance.headers = NewHeaders
    /\ client.authUsername = Str("w")

\* C11: a request issued while the client holds a username is sent with the
\* Authorization header 'Basic ' + base64(username + ':' + password) of the
\* credentials the client holds when request() is called, whatever value an
\* earlier request left in the stored headers.
C11_AuthorizationOfCurrentCredentials ==
    [][\A k \in DOMAIN calls :
          (/\ calls[k].pc # "awaitResponse" /\ calls'[k].pc = "awaitResponse"
           /\ Truthy(client.authUsername))
          => /\ calls'[k].sent.headers["authorization"] =
                   <<"Basic " \o btoa(client.authUsername.s \o ":" \o client.authPassword.s)>>
             /\ client'._requestInstance.headers["authorization"] =
                   calls'[k].sent.headers["authorization"]]_vars

\* one request went out with the credentials of the URL, and after
\* setBasicAuth('w', 's') another with the new ones
C11_Witness ==
    \E j, k \in DOMAIN calls :
        /\ calls[j].sent # Undefined /\ calls[k].sent # Undefined
        /\ calls[j].sent.headers["authorization"] = <<"Basic base64(u:p)">>
        /\ calls[k].sent.headers["authorization"] = <<"Basic base64(w:s)">>
        /\ calls[k].pc = "awaitResponse"
        /\ client.authUsername = Str("w")

\* C12: client.url = url with a URL that configure accepts leaves every stored
\* header with the values it had, and the cache, credentials and redirect
\* settings of the request as they were.
C12_UrlChangeKeepsHeaders ==
    [][(lastOp'.op = "setUrl" /\ ~lastOp'.threw) =>
          /\ \A n \in HeaderNames :
                client'._requestInstance.headers[n] = client._requestInstance.headers[n]
          /\ client'._requestInstance.cache = client._requestInstance.cache
          /\ client'._requestInstance.credentials = client._requestInstance.credentials
          /\ client'._requestInstance.redirect = client._requestInstance.redirect]_vars

\* the URL has just been changed on a client that holds two headers, one of
\* them with two values
C12_Witness ==
    /\ lastOp.op = "setUrl" /\ ~lastOp.threw
    /\ lastOp.url = UrlB.href
    /\ client._requestInstance.url.host = "b.example"
    /\ client._requestInstance.headers["x-a"] = <<"v1", "v2">>
    /\ client._requestInstance.headers["content-type"] = <<"text/plain">>

\* C13: after client.url = url with a URL that configure accepts, the
\* credentials of the client are those of the new URL: with no userinfo in it
\* the client holds no username and no password.
C13_UrlChangeReplacesCredentials ==
    (lastOp.op = "setUrl" /\ ~lastOp.threw) =>
        LET userinfo == uriParse(lastOp.url).userinfo
        IN  /\ userinfo = <<>> => (~Truthy(client.authUsername) /\ ~Truthy(client.authPassword))
            /\ userinfo # <<>> => client.authUsername = Str(userinfo[1])

\* C14: HttpJsonClient.request with a plain object as data sends the JSON text
\* of the object as body; accept and content-type become application/json
\* (content-type with the document's charset, if it has one) when the stored
\* headers have none, and keep the caller's values otherwise.
C14_JsonPayloadAndDefaultHeaders ==
    [][\A k \in DOMAIN calls :
          (/\ calls[k].pc # "awaitResponse" /\ calls'[k].pc = "awaitResponse"
           /\ client.json
           /\ lastOp'.args[1] = JsonData)
          => LET h == client._requestInstance.headers
                 sent == calls'[k].sent
             IN  /\ sent.body = Str(<<"{", "\"", "k", "\"", ":", "\"", "a", " ", "b", "\"", ",",
                                      "\"", "n", "\"", ":", "n", "u", "l", "l", "}">>)
                 /\ sent.headers["accept"] =
                       IF h["accept"] = <<>> THEN <<"application/json">> ELSE h["accept"]
                 /\ sent.headers["content-type"] =
                       IF h["content-type"] # <<>> THEN h["content-type"]
                       ELSE IF lastOp'.args[2] = "" THEN <<"application/json">>
                       ELSE <<"application/json; charset=" \o lastOp'.args[2]>>]_vars

\* an object went out as JSON text with the caller's accept header kept and
\* the content type defaulted
C14_Witness ==
    \E k \in DOMAIN calls :
        /\ client.json
        /\ lastOp.op = "request" /\ lastOp.args[1] = JsonData
        /\ calls[k].pc = "awaitResponse"
        /\ calls[k].sent.body.t = "string"
        /\ calls[k].sent.headers["accept"] = <<"text/html">>
        /\ calls[k].sent.headers["content-type"] = <<"application/json; charset=UTF-8">>

\* C15: a call of an HttpJsonClient that ended on a response whose content
\* type is application/json, with or without parameters, has the decoded JSON
\* value as body and no raw response in its envelope.
C15_JsonResponseDecoded ==
    \A k \in DOMAIN calls :
        (/\ client.json
         /\ calls[k].pc = "done"
         /\ calls[k].raised = Undefined
         /\ calls[k].response # Undefined
         /\ MatchesJson(ResponseHeaders(calls[k].response).map["content_type"]))
        => /\ calls[k].result.body.t = "object"
           /\ calls[k].result.body = JsonParse(calls[k].response.data)
           /\ calls[k].result.rawResponse = Undefined
           /\ calls[k].result.code = Num(calls[k].response.status)

\* the answer 'application/json; charset=utf-8' with the body {"a":1} was decoded
C15_Witness ==
    \E k \in DOMAIN calls :
        /\ client.json
        /\ calls[k].pc = "done"
        /\ calls[k].response = RespJsonCharset
        /\ calls[k].result.body = Obj(<<[key |-> <<"a">>, value |-> Num(1)]>>)
        /\ calls[k].result.rawResponse = Undefined

\* C16: on a response whose content type is not application/json an
\* HttpJsonClient attempts no JSON decode: the body is not read, and the call
\* ends with the status as code and the body the transport core gave (null,
\* or the status Error).
C16_NonJsonResponseUnparsed ==
    \A k \in DOMAIN calls :
        (/\ client.json
         /\ calls[k].response # Undefined
         /\ calls[k].fetch = "fulfilled"
         /\ ~MatchesJson(ResponseHeaders(calls[k].response).map["content_type"]))
        => /\ calls[k].pc = "done"
           /\ calls[k].reads = 0
           /\ calls[k].result.code = Num(calls[k].response.status)
           /\ calls[k].result.body.t \in {"null", "Error"}

\* C17, as claimed: a body that is not JSON makes request() reject with the
\* decode error instead of resolving with an envelope.
C17_DecodeFailureRejects ==
    \A k \in DOMAIN calls : calls[k].raised = SyntaxError => calls[k].pc = "rejected"

\* C17, amended: a body that is not JSON ends the call like a transport
\* failure: request() resolves with code and headers undefined and the decode
\* error as body, and never rejects.
C17_DecodeFailureCaught ==
    \A k \in DOMAIN calls :
        /\ calls[k].pc # "rejected"
        /\ calls[k].raised = SyntaxError =>
              /\ calls[k].pc = "done"
              /\ calls[k].result = Caught(SyntaxError)

\* the answer with the JSON body cut short ended the call in the catch clause
C17_Witness ==
    \E k \in DOMAIN calls :
        /\ client.json
        /\ calls[k].response = RespBadJson
        /\ calls[k].raised = SyntaxError
        /\ calls[k].pc = "done"

\* C18: a call of an HttpJsonClient that ended on a response with a non-ok
\* status, its body read without a failure of the transport, has the status
\* as code and an Error as body.
C18_JsonClientStatusError ==
    \A k \in DOMAIN calls :
        (/\ client.json
         /\ calls[k].pc = "done"
         /\ calls[k].response # Undefined
         /\ calls[k].raised # BodyReadError
         /\ ~ResponseOk(calls[k].response))
        => /\ calls[k].result.code = Num(calls[k].response.status)
           /\ calls[k].result.body.t = "Error"

\* C19, as claimed: in raw-response mode every response _request receives
\* gives an envelope with body null and the raw response attached, and the
\* body of the response is not read.
C19_RawModeBodyNull ==
    \A k \in DOMAIN calls :
        (/\ client.returnRawResponse /\ ~client.json
         /\ calls[k].response # Undefined
         /\ calls[k].raised = Undefined)
        => /\ calls[k].pc = "done"
           /\ calls[k].reads = 0
           /\ calls[k].result.rawResponse = calls[k].response
           /\ calls[k].result.body = Null

\* C19, amended: in raw-response mode every response _request receives gives
\* an envelope with the raw response attached and the body of the response
\* not read; body is null for an ok status and the status Error otherwise.
C19_RawModeBodyNullOrStatusError ==
    \A k \in DOMAIN calls :
        (/\ client.returnRawResponse /\ ~client.json
         /\ calls[k].response # Undefined
         /\ calls[k].raised = Undefined)
        => /\ calls[k].pc = "done"
           /\ calls[k].reads = 0
           /\ calls[k].result.code = Num(calls[k].response.status)
           /\ calls[k].result.rawResponse = calls[k].response
           /\ ResponseOk(calls[k].response) => calls[k].result.body = Null
           /\ ~ResponseOk(calls[k].response) => calls[k].result.body.t = "Error"

\* in raw-response mode one GET ended on a 200 and another on a 404
C19_Witness ==
    \E j, k \in DOMAIN calls :
        /\ client.returnRawResponse
        /\ calls[j].method = "GET" /\ calls[j].pc = "done"
        /\ calls[j].result.rawResponse = Resp200 /\ calls[j].result.body = Null
        /\ calls[k].method = "GET" /\ calls[k].pc = "done"
        /\ calls[k].result.rawResponse = Resp404 /\ calls[k].result.body.t = "Error"

\* C20: a verb helper called without params sends one request with its method
\* to the URL the client is configured with, without a query string, and its
\* promise resolves with an envelope: with the status as code when the server
\* answered.
C20_VerbWithoutParams ==
    \A k \in DOMAIN calls :
        (lastOp.op = "verb" /\ lastOp.args[2] = Undefined)
        => /\ calls[k].pc \in {"awaitResponse", "awaitBlob", "done"}
           /\ calls[k].sent # Undefined
           /\ calls[k].sent.method = lastOp.args[1]
           /\ calls[k].sent.url = client._requestInstance.url
           /\ (calls[k].pc = "done" /\ calls[k].raised = Undefined) =>
                 calls[k].result.code = Num(calls[k].response.status)

\* C21: a verb helper called with a query string as params sends a request
\* whose URL has that text as its query string.
C21_StringParamsPassThrough ==
    \A k \in DOMAIN calls :
        (lastOp.op = "verb" /\ lastOp.args[2].t = "string")
        => /\ calls[k].sent # Undefined
           /\ calls[k].sent.url.query = lastOp.args[2].s

\* C22: HttpClient.request sends a Blob, an ArrayBuffer, a ReadableStream or a
\* string as the body as it is and leaves the content type alone; a plain
\* object is sent form-encoded, and the content type becomes
\* application/x-www-form-urlencoded only when the stored headers have none.
C22_PayloadPassThroughOrForm ==
    [][\A k \in DOMAIN calls :
          (/\ calls[k].pc # "awaitResponse" /\ calls'[k].pc = "awaitResponse"
           /\ ~client.json
           /\ lastOp'.op = "request")
          => LET data == lastOp'.args[1]
                 h == client._requestInstance.headers
                 sent == calls'[k].sent
             IN  /\ data.t \in {"Blob", "ArrayBuffer", "ReadableStream", "string"} =>
                       /\ sent.body = data
                       /\ sent.headers["content-type"] = h["content-type"]
                 /\ data = FormData =>
                       /\ sent.body = Str(<<"k", "=", "a", "+", "b">>)
                       /\ sent.headers["content-type"] =
                             IF h["content-type"] = <<>>
                             THEN <<"application/x-www-form-urlencoded">>
                             ELSE h["content-type"]]_vars

\* a form went out with the caller's content type kept, and the stored
\* headers still hold it
C22_Witness ==
    \E k \in DOMAIN calls :
        /\ lastOp.op = "request" /\ lastOp.args[1] = FormData
        /\ calls[k].pc = "awaitResponse"
        /\ calls[k].sent.body = Str(<<"k", "=", "a", "+", "b">>)
        /\ calls[k].sent.headers["content-type"] = <<"text/plain">>

\* C23: HttpJsonClient.request sends a Blob, a ReadableStream or a string as
\* the body as it is, and writes no accept and no content-type header for it.
C23_JsonClientLeavesRawPayloads ==
    [][\A k \in DOMAIN calls :
          (/\ calls[k].pc # "awaitResponse" /\ calls'[k].pc = "awaitResponse"
           /\ client.json
           /\ lastOp'.args[1].t \in {"Blob", "ArrayBuffer", "ReadableStream", "string"})
          => /\ calls'[k].sent.body = lastOp'.args[1]
             /\ calls'[k].sent.headers["accept"] = client._requestInstance.headers["accept"]
             /\ calls'[k].sent.headers["content-type"] =
                   client._requestInstance.headers["content-type"]]_vars

\* C24: a response that arrives while the timer is armed clears the timer in
\* the step that resolves the race; from then on, until the caller's next
\* request, the timer stays cleared: its callback does not run, no abort is
\* signalled and no timeout is reported.
C24_ResponseCancelsTimer ==
    [][\A k \in DOMAIN calls :
          /\ (/\ calls[k].fetch = "pending" /\ calls'[k].fetch = "fulfilled"
              /\ calls[k].timer = "armed")
             => /\ calls'[k].timer = "cleared"
                /\ calls'[k].race = "resolved"
                /\ ~calls'[k].aborted
          /\ (calls[k].timer = "cleared" /\ ~Quiescent(calls[k]))
             => /\ calls'[k].timer = "cleared"
                /\ ~calls'[k].aborted
                /\ calls'[k].raised \notin {TimeoutError, AbortError}]_vars

\* with a timeout, a call ended on its response, its timer cleared and no
\* abort signalled, after its body was read
C24_Witness ==
    \E k \in DOMAIN calls :
        /\ client.timeout > 0
        /\ calls[k].timer = "cleared"
        /\ calls[k].race = "resolved"
        /\ calls[k].pc = "done"
        /\ calls[k].result.body = Blob("ok")
        /\ ~calls[k].aborted

\* C25: a request call leaves the client as it was: the stored headers and the
\* configuration are the same after the call as before it.
C25_RequestLeavesClientUnchanged ==
    [][(\E k \in DOMAIN calls : Quiescent(calls[k]) /\ calls'[k] # calls[k])
          => client' = client]_vars

\* C26: calls that are in flight together on one client keep their race state
\* apart: a step of one call (the expiry of its timer included) leaves every
\* other call as it was, a call is aborted or rejected for a timeout only by
\* its own timer, and a call that ends with a status code ends with the code of
\* its own response.
C26_ConcurrentRacesApart ==
    [][\A k \in DOMAIN calls :
          /\ calls'[k] # calls[k] =>
                \A j \in DOMAIN calls \ {k} : calls'[j] = calls[j]
          /\ (calls'[k].aborted /\ ~calls[k].aborted) =>
                calls[k].timer = "armed" /\ calls'[k].timer = "fired"
          /\ (calls'[k].raised = TimeoutError /\ calls[k].raised # TimeoutError) =>
                calls[k].timer = "armed" /\ calls'[k].timer = "fired"
          /\ (calls'[k].raised = AbortError /\ calls[k].raised # AbortError) =>
                calls[k].aborted /\ calls[k].timer = "fired"
          /\ (calls'[k].pc = "done" /\ calls'[k].raised = Undefined) =>
                calls'[k].result.code = Num(calls'[k].response.status)]_vars

\* two calls are in flight together: the timer of one has expired while its
\* send is still pending, the other one still awaits its response with its own
\* timer armed and no abort signalled
C26_Witness ==
    \E k \in DOMAIN calls, j \in DOMAIN calls :
        /\ k # j
        /\ calls[k].timer = "fired"
        /\ calls[k].fetch = "pending"
        /\ calls[k].aborted \/ calls[k].raised = TimeoutError
        /\ calls[j].pc = "awaitResponse"
        /\ calls[j].timer = "armed"
        /\ ~calls[j].aborted
        /\ calls[j].raised = Undefined

\* C27: the body of a response is read at most once, by response.blob() in
\* _request or by rawResponse.json() in HttpJsonClient._request and never by
\* both, whatever the status, the method and the raw-response mode are; a
\* response that is not ok, or the response to a HEAD request of an
\* HttpClient, is not read by _request at all.
C27_BodyReadAtMostOnce ==
    \A k \in DOMAIN calls :
        /\ calls[k].reads <= 1
        /\ calls[k].pc = "awaitBlob" => ~client.json /\ calls[k].reads = 1
        /\ calls[k].pc = "awaitJson" => client.json /\ calls[k].reads = 1
        /\ (/\ ~client.json
            /\ calls[k].response # Undefined
            /\ ~ResponseOk(calls[k].response) \/ calls[k].method = "HEAD"
                  \/ client.returnRawResponse)
           => calls[k].reads = 0

\* a call of an HttpJsonClient ended after the one read of its body by json(),
\* the raw response removed from its envelope
C27_Witness ==
    \E k \in DOMAIN calls :
        /\ client.json
        /\ calls[k].pc = "done"
        /\ calls[k].reads = 1
        /\ calls[k].result.body = JsonParse(RespJson.data)
        /\ calls[k].result.rawResponse = Undefined

\* C28 (as stated): for a mapping with string, number and boolean values,
\* buildRequestParameters returns one key=value segment per entry, in the
\* insertion order of the mapping, joined by the separator, true as 1 and
\* false as 0.
C28_SegmentsInInsertionOrder ==
    (lastOp.op = "buildRequestParameters" /\ lastOp.args[1].t = "object") =>
        LET entries == lastOp.args[1].entries
            separator == lastOp.args[2]
            Rendered(v) == IF v.t = "boolean" THEN (IF v.b THEN <<"1">> ELSE <<"0">>)
                           ELSE IF v.t = "number" THEN NumberToString(v.n)
                           ELSE encode(v.s)
            Segment(e) == encode(e.key) \o <<"=">> \o Rendered(e.value)
        IN  /\ ~lastOp.threw
            /\ lastOp.args[3] = Str(Join([i \in 1..Len(entries) |-> Segment(entries[i])],
                                          separator))

\* C28 (amended): for a mapping with string, number and boolean values,
\* buildRequestParameters returns one key=value segment per entry, joined by
\* the separator, true as 1 and false as 0, in the order of Object.keys: the
\* keys that are array indices first, in ascending order of their numbers,
\* then the other keys in insertion order.  The arguments fix the result.
C28_SegmentsInKeyOrder ==
    (lastOp.op = "buildRequestParameters" /\ lastOp.args[1].t = "object") =>
        LET entries == lastOp.args[1].entries
            separator == lastOp.args[2]
            Rendered(v) == IF v.t = "boolean" THEN (IF v.b THEN <<"1">> ELSE <<"0">>)
                           ELSE IF v.t = "number" THEN NumberToString(v.n)
                           ELSE encode(v.s)
            Segment(e) == encode(e.key) \o <<"=">> \o Rendered(e.value)
            Before(e, f, i, j) ==
                IF IsArrayIndex(e.key)
                THEN ~IsArrayIndex(f.key) \/ IndexValue(e.key) < IndexValue(f.key)
                ELSE ~IsArrayIndex(f.key) /\ i < j
        IN  /\ ~lastOp.threw
            /\ lastOp.args[3].t = "string"
            /\ Cardinality({i \in 1..Len(lastOp.args[3].s) :
                               lastOp.args[3].s[i] = separator[1]})
                  = IF entries = <<>> THEN 0 ELSE Len(entries) - 1
            /\ \E order \in Permutations(1..Len(entries)) :
                  /\ \A p \in 1..Len(entries), q \in 1..Len(entries) :
                        p < q => Before(entries[order[p]], entries[order[q]],
                                        order[p], order[q])
                  /\ lastOp.args[3].s =
                        Join([i \in 1..Len(entries) |-> Segment(entries[order[i]])], separator)

\* the mapping {a: true, 1: "a b q"} with the separator & gave 1=a+b%20q&a=1
C28_Witness ==
    /\ lastOp.op = "buildRequestParameters"
    /\ lastOp.args[1] = Obj(<<[key |-> <<"a">>, value |-> Bool(TRUE)],
                              [key |-> <<"1">>, value |-> Str(<<"a", " ", "b", " ", "q">>)]>>)
    /\ lastOp.args[2] = <<"&">>
    /\ lastOp.args[3] = Str(<<"1", "=", "a", "+", "b", "%", "2", "0", "q", "&", "a", "=", "1">>)

\* C29: in the string buildRequestParameters builds for a mapping, every
\* space of a key or value is a + (no %20 is left), and splitting the string
\* on the separator and on =, then percent-decoding each part with + read as
\* a space, gives back the keys and the values.
C29_SpacesAsPlusAndRoundTrip ==
    (lastOp.op = "buildRequestParameters" /\ lastOp.args[1].t = "object") =>
        LET entries == ObjectKeys(lastOp.args[1].entries)
            separator == lastOp.args[2]
            Text(v) == IF v.t = "boolean" THEN (IF v.b THEN <<"1">> ELSE <<"0">>)
                       ELSE IF v.t = "number" THEN NumberToString(v.n)
                       ELSE v.s
            Unescape(t) == CHOOSE ch \in {" ", "&", "+", "/", ";", "=", "?"} :
                              PercentEncode(ch) = t
            RECURSIVE Decode(_)
            Decode(t) ==
                IF t = <<>> THEN <<>>
                ELSE IF t[1] = "+" THEN <<" ">> \o Decode(Tail(t))
                ELSE IF t[1] = "%" THEN <<Unescape(SubSeq(t, 1, 3))>> \o Decode(SubSeq(t, 4, Len(t)))
                ELSE <<t[1]>> \o Decode(Tail(t))
            RECURSIVE Split(_, _)
            Split(t, ch) ==
                IF \A i \in 1..Len(t) : t[i] # ch THEN <<t>>
                ELSE LET i == CHOOSE k \in 1..Len(t) :
                                t[k] = ch /\ \A m \in 1..(k - 1) : t[m] # ch
                     IN  <<SubSeq(t, 1, i - 1)>> \o Split(SubSeq(t, i + 1, Len(t)), ch)
            segments == IF entries = <<>> THEN <<>> ELSE Split(lastOp.args[3].s, separator[1])
        IN  /\ ~lastOp.threw
            /\ ~Includes(lastOp.args[3].s, <<"%", "2", "0">>)
            /\ Len(segments) = Len(entries)
            /\ \A i \in 1..Len(entries) :
                  /\ Len(Split(segments[i], "=")) = 2
                  /\ Decode(Split(segments[i], "=")[1]) = entries[i].key
                  /\ Decode(Split(segments[i], "=")[2]) = Text(entries[i].value)

\* C30: client.url = url with a URL that configure rejects (a scheme that is
\* not compatible, or no host) changes nothing of the client: scheme, host,
\* port, path, credentials, the stored request and its headers are what they
\* were; the request issued next goes to the URL configured before, not to the
\* rejected one.
C30_FailedUrlSetLeavesClient ==
    [][/\ (lastOp'.op = "setUrl" /\ lastOp'.threw /\ lastOp' # lastOp)
            => client' = client /\ calls' = calls
       /\ \A k \in DOMAIN calls :
            (/\ lastOp.op = "setUrl" /\ lastOp.threw
             /\ lastOp'.op = "request"
             /\ calls'[k].pc = "awaitResponse" /\ calls[k].pc # "awaitResponse")
            => /\ calls'[k].sent.url.scheme = client.scheme.s
               /\ calls'[k].sent.url.host = client.host.s
               /\ calls'[k].sent.url.path = client.path.s
               /\ <<calls'[k].sent.url.scheme, calls'[k].sent.url.host>>
                     # <<ToLowerCase(uriParse(lastOp.url).scheme), uriParse(lastOp.url).host>>]_vars

\* client.url = "ftp://..." has just failed on a client configured from a URL
\* with credentials, which holds a header and has answered a request
C30_Witness ==
    /\ lastOp.op = "setUrl" /\ lastOp.threw
    /\ lastOp.url = UrlFtp.href
    /\ client.scheme = Str("http")
    /\ client.host = Str("a.example")
    /\ client.port = Num(8080)
    /\ client.authUsername = Str("u")
    /\ client._requestInstance.url.host = "a.example"
    /\ client._requestInstance.headers["content-type"] = <<"text/plain">>
    /\ \E k \in DOMAIN calls : calls[k].pc = "done" /\ calls[k].result.code = Num(200)

\* C31: with a timeout > 0, a call that has got its response and waits for
\* the body to be read is eventually resolved, also when the read of the body
\* never completes: the timeout ends the call.
C31_TimeoutCoversBodyRead ==
    \A k \in 1..MaxCallers :
        [](calls[k].pc = "awaitBlob" /\ client.timeout > 0 => <>(calls[k].pc = "done"))

\* C32: a send that fails on its own while the timer is armed cancels the
\* timer: once the call has ended through that failure its timer is not
\* armed any more and its callback does not run.
C32_FailureCancelsTimer ==
    [][\A k \in DOMAIN calls :
          /\ (/\ calls[k].fetch = "pending" /\ calls'[k].fetch = "rejected"
              /\ ~calls[k].aborted
              /\ calls[k].timer = "armed")
             => calls'[k].timer # "armed"
          /\ (calls[k].pc = "done" /\ calls[k].raised = NetworkError /\ calls'[k] # calls[k])
             => calls'[k].timer # "fired"]_vars

\* C33: a request issued while the client holds no username (the credentials
\* were cleared with setBasicAuth(), no header was set by the caller) is sent
\* without an Authorization header, whatever earlier requests were sent with.
C33_NoAuthorizationWithoutCredentials ==
    [][\A k \in DOMAIN calls :
          (/\ calls[k].pc # "awaitResponse" /\ calls'[k].pc = "awaitResponse"
           /\ ~Truthy(client.authUsername))
          => calls'[k].sent.headers["authorization"] = <<>>]_vars

\* C34: every request, with or without a query string, is sent to the scheme,
\* host, port and path of the configured URL.
C34_QueryKeepsSchemeHostPortPath ==
    [][\A k \in DOMAIN calls :
          (calls[k].pc # "awaitResponse" /\ calls'[k].pc = "awaitResponse")
          => /\ calls'[k].sent.url.scheme = client._requestInstance.url.scheme
             /\ calls'[k].sent.url.host = client._requestInstance.url.host
             /\ calls'[k].sent.url.port = client._requestInstance.url.port
             /\ calls'[k].sent.url.path = client._requestInstance.url.path]_vars

====
